---------------------------- MODULE Spec2Model ----------------------------
(***************************************************************************)
(* Model of src/src/App.tsx: the trapezoidal gravity integrator            *)
(* (recalculatePositions) and the React component that drives it with      *)
(* buttons and setInterval timers.                                         *)
(*                                                                         *)
(* JavaScript numbers are binary floating point.  They are modelled as     *)
(* binary floating point here too: a finite number is m * 2^e with a       *)
(* significand of at most Precision bits, every arithmetic operation       *)
(* rounds its exact result to nearest, ties to even, and NaN and the two   *)
(* infinities follow IEEE 754.  Two things differ from a JavaScript        *)
(* number: the significand is shorter (Precision bits instead of 53) and   *)
(* the exponent is unbounded, so nothing overflows to Infinity or falls    *)
(* into the subnormal range; -0 is not distinguished from 0.               *)
(***************************************************************************)
EXTENDS Integers, Sequences, FiniteSets, TLC

\* Bits of significand kept by every operation (53 in a JavaScript number).
Precision == 8

-----------------------------------------------------------------------------
(* Numbers *)

NaN == [cls |-> "nan", m |-> 0, e |-> 0]
Infinity == [cls |-> "inf", m |-> 1, e |-> 0]
NegInfinity == [cls |-> "inf", m |-> -1, e |-> 0]
Zero == [cls |-> "fin", m |-> 0, e |-> 0]

IsFinite(a) == a.cls = "fin"
IsNaN(a) == a.cls = "nan"

Abs(n) == IF n < 0 THEN -n ELSE n
Sign(n) == IF n < 0 THEN -1 ELSE 1
Min(a, b) == IF a < b THEN a ELSE b

\* Number of bits of the natural number n.
BitLen(n) ==
  CHOOSE k \in 0..31 : (k = 0 \/ n >= 2 ^ (k - 1)) /\ (k = 31 \/ n < 2 ^ k)

\* The finite number m * 2^e in canonical form: m is odd, or the number is 0.
Canon(m, e) ==
  IF m = 0 THEN Zero
  ELSE LET k == CHOOSE k \in 0..30 : Abs(m) % (2 ^ (k + 1)) # 0
       IN [cls |-> "fin", m |-> Sign(m) * (Abs(m) \div (2 ^ k)), e |-> e + k]

\* sign * mag * 2^e rounded to Precision bits, to nearest, ties to even.
\* sticky says that the exact value lies strictly above mag * 2^e
\* (in magnitude) and below (mag + 1) * 2^e.
Round(sign, mag, e, sticky) ==
  LET n == BitLen(mag)
  IN IF n <= Precision THEN Canon(sign * mag, e)
     ELSE LET sh == n - Precision
              q == mag \div (2 ^ sh)
              rem == mag % (2 ^ sh)
              half == 2 ^ (sh - 1)
              up == \/ rem > half
                    \/ rem = half /\ (sticky \/ q % 2 = 1)
          IN Canon(sign * (IF up THEN q + 1 ELSE q), e + sh)

\* An integer literal.
FromInt(n) == Round(Sign(n), Abs(n), 0, FALSE)

Neg(a) == IF IsFinite(a) \/ a.cls = "inf" THEN [a EXCEPT !.m = -a.m] ELSE a

\* Position of the leading bit of a non-zero finite number.
Top(a) == a.e + BitLen(Abs(a.m))

AddFinite(a, b) ==
  IF a.m = 0 THEN b
  ELSE IF b.m = 0 THEN a
  ELSE IF Top(a) - Top(b) >= Precision + 2 THEN a
  ELSE IF Top(b) - Top(a) >= Precision + 2 THEN b
  ELSE LET e == Min(a.e, b.e)
           s == a.m * 2 ^ (a.e - e) + b.m * 2 ^ (b.e - e)
       IN Round(Sign(s), Abs(s), e, FALSE)

\* a + b
Add(a, b) ==
  IF IsNaN(a) \/ IsNaN(b) THEN NaN
  ELSE IF ~IsFinite(a) /\ ~IsFinite(b) THEN (IF a.m = b.m THEN a ELSE NaN)
  ELSE IF ~IsFinite(a) THEN a
  ELSE IF ~IsFinite(b) THEN b
  ELSE AddFinite(a, b)

\* a * b
Mul(a, b) ==
  IF IsNaN(a) \/ IsNaN(b) THEN NaN
  ELSE IF ~IsFinite(a) \/ ~IsFinite(b)
       THEN (IF a.m = 0 \/ b.m = 0 THEN NaN
             ELSE IF Sign(a.m) = Sign(b.m) THEN Infinity ELSE NegInfinity)
  ELSE Round(Sign(a.m) * Sign(b.m), Abs(a.m) * Abs(b.m), a.e + b.e, FALSE)

DivFinite(a, b) ==
  LET k == Precision + 3 + BitLen(Abs(b.m)) - BitLen(Abs(a.m))
      num == Abs(a.m) * 2 ^ k
      den == Abs(b.m)
  IN Round(Sign(a.m) * Sign(b.m), num \div den, a.e - k - b.e, num % den # 0)

\* a / b
Div(a, b) ==
  IF IsNaN(a) \/ IsNaN(b) THEN NaN
  ELSE IF ~IsFinite(a)
       THEN (IF ~IsFinite(b) THEN NaN
             ELSE IF Sign(a.m) = Sign(b.m) THEN Infinity ELSE NegInfinity)
  ELSE IF ~IsFinite(b) THEN Zero
  ELSE IF b.m = 0
       THEN (IF a.m = 0 THEN NaN
             ELSE IF a.m > 0 THEN Infinity ELSE NegInfinity)
  ELSE IF a.m = 0 THEN Zero
  ELSE DivFinite(a, b)

\* The largest r with r * r <= n, found bit by bit from the top.
ISqrt(n) ==
  LET bits == (BitLen(n) + 1) \div 2
      r[i \in 0..bits] ==
        IF i = 0 THEN 0
        ELSE LET c == r[i - 1] + 2 ^ (bits - i)
             IN IF c * c <= n THEN c ELSE r[i - 1]
  IN r[bits]

SqrtFinite(a) ==
  LET k0 == 2 * Precision + 3 - BitLen(a.m)
      k == IF (a.e - k0) % 2 = 0 THEN k0 ELSE k0 + 1
      n == a.m * 2 ^ k
      r == ISqrt(n)
  IN Round(1, r, (a.e - k) \div 2, r * r # n)

\* Math.sqrt(a)
Sqrt(a) ==
  IF IsNaN(a) THEN NaN
  ELSE IF ~IsFinite(a) THEN (IF a.m > 0 THEN Infinity ELSE NaN)
  ELSE IF a.m < 0 THEN NaN
  ELSE IF a.m = 0 THEN Zero
  ELSE SqrtFinite(a)

\* a ** 2
Square(a) == Mul(a, a)

\* A decimal literal digits * 10^exp10, built by scaling the integer by ten.
Decimal(digits, exp10) ==
  LET d[i \in 0..Abs(exp10)] ==
        IF i = 0 THEN FromInt(digits)
        ELSE IF exp10 > 0 THEN Mul(d[i - 1], FromInt(10))
        ELSE Div(d[i - 1], FromInt(10))
  IN d[Abs(exp10)]

-----------------------------------------------------------------------------
(* Constants of App.tsx *)

RADIUS_OF_EARTH == Mul(FromInt(6371), FromInt(1000))
MASS_OF_EARTH == Decimal(5972, 21)
G == Decimal(6674, -14)
FRAME_DURATION == 100

\* The earth.
FrameOfReference ==
  [x |-> Zero, y |-> Zero, mass |-> MASS_OF_EARTH,
   width |-> Mul(RADIUS_OF_EARTH, FromInt(2)),
   height |-> Mul(RADIUS_OF_EARTH, FromInt(2))]

Vec(x, y) == [x |-> x, y |-> y]

-----------------------------------------------------------------------------
(* recalculatePositions *)

distanceToEarth(body) ==
  Vec(Add(FrameOfReference.x, Neg(body.x)), Add(FrameOfReference.y, Neg(body.y)))

absoluteDistanceToEarth(d) == Sqrt(Add(Square(d.x), Square(d.y)))

\* Mutant: the gravitational force leaves out the body's mass.
absoluteGravitationalForce_withoutMass(body, r) ==
  Div(Mul(G, MASS_OF_EARTH), Square(r))

\* r is the absolute distance to earth of the body.
absoluteGravitationalForce(body, r) ==
  Div(Mul(Mul(G, MASS_OF_EARTH), body.mass), Square(r))

\* d is the distance to earth, r its absolute value, force the absolute
\* gravitational force; the quotients are cosineTheta and sineTheta.
gravitationalForce(d, r, force) ==
  Vec(Mul(force, Div(d.x, r)), Mul(force, Div(d.y, r)))

\* Mutant: the engine force is added whatever the flag says.
newAcceleration_engineAlwaysOn(body, isEngineOn, g) ==
  Vec(Div(Add(body.engineForceVector.x, g.x), body.mass),
      Div(Add(body.engineForceVector.y, g.y), body.mass))

\* g is the gravitational force on the body.
newAcceleration(body, isEngineOn, g) ==
  Vec(Div(IF isEngineOn THEN Add(body.engineForceVector.x, g.x)
                        ELSE Add(Zero, g.x), body.mass),
      Div(IF isEngineOn THEN Add(body.engineForceVector.y, g.y)
                        ELSE Add(Zero, g.y), body.mass))

\* Mutant: the velocity is advanced with the new acceleration alone.
newVelocity_newAccelerationOnly(body, acceleration, deltaTime) ==
  Vec(Add(Div(Mul(Add(acceleration.x, acceleration.x), deltaTime),
              FromInt(2)), body.velocityVector.x),
      Add(Div(Mul(Add(acceleration.y, acceleration.y), deltaTime),
              FromInt(2)), body.velocityVector.y))

newVelocity(body, acceleration, deltaTime) ==
  Vec(Add(Div(Mul(Add(acceleration.x, body.accelerationVector.x), deltaTime),
              FromInt(2)), body.velocityVector.x),
      Add(Div(Mul(Add(acceleration.y, body.accelerationVector.y), deltaTime),
              FromInt(2)), body.velocityVector.y))

\* Mutant: the position is advanced with the old velocity alone.
newPosition_oldVelocityOnly(body, velocity, deltaTime) ==
  Vec(Add(Div(Mul(Add(body.velocityVector.x, body.velocityVector.x), deltaTime),
              FromInt(2)), body.x),
      Add(Div(Mul(Add(body.velocityVector.y, body.velocityVector.y), deltaTime),
              FromInt(2)), body.y))

newPosition(body, velocity, deltaTime) ==
  Vec(Add(Div(Mul(Add(velocity.x, body.velocityVector.x), deltaTime),
              FromInt(2)), body.x),
      Add(Div(Mul(Add(velocity.y, body.velocityVector.y), deltaTime),
              FromInt(2)), body.y))

\* The gravitational force on a body, as the callback computes it.
gravityOn(body) ==
  LET d == distanceToEarth(body)
      r == absoluteDistanceToEarth(d)
  IN gravitationalForce(d, r, absoluteGravitationalForce(body, r))

\* The object the callback returns: the body with a, v and p put in.
returnedBody(body, a, v, p) ==
  [body EXCEPT !.accelerationVector = a, !.velocityVector = v,
               !.x = p.x, !.y = p.y]

\* The callback from newPosition on, v being the new velocity.
recalculateFromVelocity(body, deltaTime, a, v) ==
  returnedBody(body, a, v, newPosition(body, v, deltaTime))

\* The callback from newVelocity on, a being the new acceleration.
recalculateFromAcceleration(body, deltaTime, a) ==
  recalculateFromVelocity(body, deltaTime, a, newVelocity(body, a, deltaTime))

\* The callback of bodies.map.
recalculateBody(body, deltaTime, isEngineOn) ==
  recalculateFromAcceleration(body, deltaTime,
                              newAcceleration(body, isEngineOn, gravityOn(body)))

\* Mutant: the result is built back to front.
recalculatePositions_reversed(bodies, deltaTime, isEngineOn) ==
  [i \in 1..Len(bodies) |->
     recalculateBody(bodies[Len(bodies) + 1 - i], deltaTime, isEngineOn)]

recalculatePositions(bodies, deltaTime, isEngineOn) ==
  [i \in 1..Len(bodies) |-> recalculateBody(bodies[i], deltaTime, isEngineOn)]

\* The initial value of the bodies state of App.
Rocket ==
  [name |-> "Rocket", x |-> Zero, y |-> Add(RADIUS_OF_EARTH, FromInt(10000)),
   width |-> FromInt(20000), height |-> FromInt(20000), mass |-> FromInt(7000),
   engineForceVector |-> Vec(Zero, FromInt(100000)),
   accelerationVector |-> Vec(Zero, Zero),
   velocityVector |-> Vec(Zero, Zero)]

-----------------------------------------------------------------------------
(* Bounds *)

\* Longest sequence of bodies handed to recalculatePositions.
MaxBodies == 2
\* Calls of recalculatePositions in one behaviour.
MaxCalls == 2
\* setInterval calls in one behaviour.
MaxTimers == 2

-----------------------------------------------------------------------------
(* State *)

VARIABLES
  bodies,      \* useState: the stored bodies
  frame,       \* useState: the frame counter
  isEngineOn,  \* useState: the engine flag
  timerId,     \* useState: the id kept by the last setTimerId, 0 for null
  intervals,   \* the runtime's live intervals, each with its callback
  nextTimer,   \* the id the next setInterval returns
  calls,       \* history: every call of recalculatePositions so far
  pausedAt,    \* history: Len(calls) when pause last ran, -1 once a
               \* playback direction was started after it
  stoppedAt    \* history: Len(calls) when Stop Engine ran, -1 before

vars == <<bodies, frame, isEngineOn, timerId, intervals, nextTimer,
          calls, pausedAt, stoppedAt>>

\* FRAME_DURATION / 1000 and -FRAME_DURATION / 1000
ForwardDelta == Div(FromInt(FRAME_DURATION), FromInt(1000))
BackwardDelta == Div(FromInt(-FRAME_DURATION), FromInt(1000))

\* setBodies((prevBodies) => recalculatePositions(prevBodies, deltaTime, engine))
SetBodies(deltaTime, engine, by) ==
  /\ Len(calls) < MaxCalls
  /\ bodies' = recalculatePositions(bodies, deltaTime, engine)
  /\ calls' = Append(calls, [arg |-> bodies, deltaTime |-> deltaTime,
                             isEngineOn |-> engine, by |-> by,
                             ret |-> bodies'])

-----------------------------------------------------------------------------
(* The component App *)

\* Mutant: toPreviousFrame advances the frame counter.
toPreviousFrame_advancesFrame(engine, by) ==
  /\ SetBodies(BackwardDelta, engine, by)
  /\ frame' = frame + 1
  /\ UNCHANGED <<isEngineOn, timerId, intervals, nextTimer, pausedAt, stoppedAt>>

\* toPreviousFrame as memoised by a render in which isEngineOn was engine.
toPreviousFrame(engine, by) ==
  /\ SetBodies(BackwardDelta, engine, by)
  /\ frame' = frame - 1
  /\ UNCHANGED <<isEngineOn, timerId, intervals, nextTimer, pausedAt, stoppedAt>>

\* toNextFrame as memoised by a render in which isEngineOn was engine.
toNextFrame(engine, by) ==
  /\ SetBodies(ForwardDelta, engine, by)
  /\ frame' = frame + 1
  /\ UNCHANGED <<isEngineOn, timerId, intervals, nextTimer, pausedAt, stoppedAt>>

\* setInterval(callback, ...) followed by setTimerId(timer); the interval
\* keeps the callback of the render that ran the handler.
StartInterval(callback) ==
  /\ nextTimer <= MaxTimers
  /\ intervals' = intervals \cup {[id |-> nextTimer, callback |-> callback,
                                    isEngineOn |-> isEngineOn]}
  /\ timerId' = nextTimer
  /\ nextTimer' = nextTimer + 1
  /\ pausedAt' = -1
  /\ UNCHANGED <<bodies, frame, isEngineOn, calls, stoppedAt>>

rewind == StartInterval("toPreviousFrame")

fastForward == StartInterval("toNextFrame")

\* The timer part of pause: clearInterval(timerId) and setTimerId(null)
\* when timerId is set.
pause ==
  /\ IF timerId # 0
     THEN /\ intervals' = {t \in intervals : t.id # timerId}
          /\ timerId' = 0
     ELSE UNCHANGED <<intervals, timerId>>
  /\ pausedAt' = Len(calls)
  /\ UNCHANGED <<bodies, frame, nextTimer, calls>>

\* The buttons.
ClickPreviousFrame == toPreviousFrame(isEngineOn, "button")

ClickNextFrame == toNextFrame(isEngineOn, "button")

ClickPause == pause /\ UNCHANGED <<isEngineOn, stoppedAt>>

ClickStopEngine ==
  /\ pause
  /\ isEngineOn' = FALSE
  /\ stoppedAt' = Len(calls)

\* The runtime runs the callback of a live interval.
IntervalFires ==
  \E t \in intervals :
    IF t.callback = "toPreviousFrame"
    THEN toPreviousFrame(t.isEngineOn, "timer")
    ELSE toNextFrame(t.isEngineOn, "timer")

Init ==
  /\ bodies = <<Rocket>>
  /\ frame = 0
  /\ isEngineOn = TRUE
  /\ timerId = 0
  /\ intervals = {}
  /\ nextTimer = 1
  /\ calls = <<>>
  /\ pausedAt = -1
  /\ stoppedAt = -1

Next ==
  \/ rewind
  \/ fastForward
  \/ ClickPreviousFrame
  \/ ClickNextFrame
  \/ ClickPause
  \/ ClickStopEngine
  \/ IntervalFires

Spec == Init /\ [][Next]_vars

-----------------------------------------------------------------------------
(* recalculatePositions on its own: a caller hands it any sequence of      *)
(* bodies and feeds each result back in.                                   *)

\* Position, velocity, stored acceleration, name and extent of the inputs:
\* the rocket of App, a fast body off the axes, a body at the centre of the earth.
Bases ==
  { Rocket,
    [Rocket EXCEPT !.name = "Probe",
                   !.x = FromInt(3000000), !.y = FromInt(-4000000),
                   !.width = FromInt(10), !.height = FromInt(30),
                   !.velocityVector = Vec(FromInt(300000), FromInt(-200000)),
                   !.accelerationVector = Vec(FromInt(-6), FromInt(8))],
    [Rocket EXCEPT !.name = "Core", !.x = Zero, !.y = Zero] }

\* Mass and engine force of the inputs.
Variants ==
  << [mass |-> FromInt(7000), force |-> Vec(Zero, Zero)],
     [mass |-> FromInt(7000), force |-> Vec(Zero, FromInt(100000))],
     [mass |-> FromInt(7000), force |-> Vec(FromInt(-3000), FromInt(500))],
     [mass |-> FromInt(14000), force |-> Vec(Zero, FromInt(100000))],
     [mass |-> FromInt(21000), force |-> Vec(Zero, FromInt(100000))],
     [mass |-> Zero, force |-> Vec(Zero, FromInt(100000))],
     [mass |-> FromInt(-7000), force |-> Vec(Zero, FromInt(100000))] >>

InputBody(base, v) ==
  [base EXCEPT !.mass = Variants[v].mass, !.engineForceVector = Variants[v].force]

\* The sequences of up to MaxBodies different variants of one base, kept in
\* the order of Variants.
Inputs ==
  { [i \in 1..Len(pick) |-> InputBody(base, pick[i])] :
      base \in Bases,
      pick \in { q \in UNION {[1..n -> 1..Len(Variants)] : n \in 0..MaxBodies} :
                   \A i \in 1..Len(q) - 1 : q[i] < q[i + 1] } }

DeltaTimes == {ForwardDelta, BackwardDelta}

Call(deltaTime, engine) ==
  /\ SetBodies(deltaTime, engine, "caller")
  /\ UNCHANGED <<frame, isEngineOn, timerId, intervals, nextTimer,
                 pausedAt, stoppedAt>>

CoreInit ==
  /\ bodies \in Inputs
  /\ frame = 0
  /\ isEngineOn = TRUE
  /\ timerId = 0
  /\ intervals = {}
  /\ nextTimer = 1
  /\ calls = <<>>
  /\ pausedAt = -1
  /\ stoppedAt = -1

CoreNext == \E deltaTime \in DeltaTimes, engine \in BOOLEAN : Call(deltaTime, engine)

SpecCore == CoreInit /\ [][CoreNext]_vars

-----------------------------------------------------------------------------
(* Vocabulary of the properties *)

IsPositive(a) == IsFinite(a) /\ a.m > 0

\* A body the integrator's contract accepts: positive mass, not at the
\* position of the frame of reference.
ValidBody(body) ==
  /\ IsPositive(body.mass)
  /\ ~(body.x = FrameOfReference.x /\ body.y = FrameOfReference.y)

CallIndices == 1..Len(calls)

\* The stored bodies right after the i-th call.
StoredAfter(i) == IF i < Len(calls) THEN calls[i + 1].arg ELSE bodies

position(body) == Vec(body.x, body.y)

SameMotion(b1, b2) ==
  /\ position(b1) = position(b2)
  /\ b1.velocityVector = b2.velocityVector
  /\ b1.accelerationVector = b2.accelerationVector

DiffersOnlyInEngineForce(b1, b2) ==
  /\ b1.engineForceVector # b2.engineForceVector
  /\ [b1 EXCEPT !.engineForceVector = b2.engineForceVector] = b2

DiffersOnlyInMass(b1, b2) ==
  /\ b1.mass # b2.mass
  /\ [b1 EXCEPT !.mass = b2.mass] = b2

\* The first n calls all ran with the engine off.
EngineOffUpTo(n) == \A k \in 1..n : ~calls[k].isEngineOn

-----------------------------------------------------------------------------
(* Properties of the component *)

\* C1: at most one interval is live at any time.
C1_AtMostOneInterval == Cardinality(intervals) <= 1

\* C2: once pause has run, no call made by an interval changes the bodies
\* or the frame until rewind or fastForward is clicked again.
C2_PauseStopsTimerTicks ==
  pausedAt >= 0 => \A i \in CallIndices : i > pausedAt => calls[i].by # "timer"

\* C10: once Stop Engine has set the flag to false, no later call of
\* recalculatePositions, from a button or an interval, runs with the engine on.
C10_NoEngineAfterStop ==
  stoppedAt >= 0 => \A i \in CallIndices : i > stoppedAt => ~calls[i].isEngineOn

ForwardCalls == {i \in CallIndices : calls[i].deltaTime = ForwardDelta}
BackwardCalls == {i \in CallIndices : calls[i].deltaTime = BackwardDelta}

\* C9: the frame counter is the number of forward steps minus the number
\* of backward steps applied to the stored bodies, and the stored bodies are
\* the initial bodies with exactly these steps applied in order.
C9_FrameCountsSteps ==
  /\ frame = Cardinality(ForwardCalls) - Cardinality(BackwardCalls)
  /\ CallIndices = ForwardCalls \cup BackwardCalls
  /\ \A i \in CallIndices :
       /\ calls[i].arg = (IF i = 1 THEN <<Rocket>> ELSE calls[i - 1].ret)
       /\ calls[i].ret =
            recalculatePositions(calls[i].arg, calls[i].deltaTime, calls[i].isEngineOn)
  /\ bodies = (IF calls = <<>> THEN <<Rocket>> ELSE calls[Len(calls)].ret)

\* C9 witness: two backward steps, one by an interval and one by a button.
C9_Witness ==
  /\ Len(calls) = 2
  /\ frame = -2
  /\ \E i \in CallIndices : calls[i].by = "timer"
  /\ \E i \in CallIndices : calls[i].by = "button"
  /\ bodies # <<Rocket>>

-----------------------------------------------------------------------------
(* Properties of recalculatePositions *)

\* C3: every call returns a sequence of the same length and order whose
\* bodies keep name, mass, width, height and engineForceVector.
C3_CarriesOver ==
  \A c \in CallIndices :
    /\ Len(calls[c].ret) = Len(calls[c].arg)
    /\ \A i \in 1..Len(calls[c].arg) :
         LET b == calls[c].arg[i]
             r == calls[c].ret[i]
         IN /\ r.name = b.name
            /\ r.mass = b.mass
            /\ r.width = b.width
            /\ r.height = b.height
            /\ r.engineForceVector = b.engineForceVector

\* C3 witness: a call on two different bodies that moved both of them.
C3_Witness ==
  \E c \in CallIndices :
    /\ Len(calls[c].arg) = 2
    /\ calls[c].arg[1].mass # calls[c].arg[2].mass
    /\ calls[c].arg[1].engineForceVector # calls[c].arg[2].engineForceVector
    /\ \A i \in 1..2 : /\ ValidBody(calls[c].arg[i])
                       /\ ~SameMotion(calls[c].arg[i], calls[c].ret[i])

\* C4: a call whose input holds a body with mass <= 0 or at the position of
\* the frame of reference yields no body sequence and leaves the stored
\* bodies as they were.
C4_InvalidInputFails ==
  \A c \in CallIndices :
    (\E i \in 1..Len(calls[c].arg) : ~ValidBody(calls[c].arg[i]))
      => /\ calls[c].ret = <<>>
         /\ StoredAfter(c) = calls[c].arg

\* C5: (i) with the engine off, two valid bodies that differ only in
\* engineForceVector come out differing only in engineForceVector;
\* (ii) with the engine on, a valid body with engineForceVector (0, 0) comes
\* out as it does with the engine off.
C5_EngineToggling ==
  \A c \in CallIndices :
    LET arg == calls[c].arg
        ret == calls[c].ret
    IN \A i \in 1..Len(arg) :
         /\ ~calls[c].isEngineOn =>
              \A j \in 1..Len(arg) :
                (ValidBody(arg[i]) /\ DiffersOnlyInEngineForce(arg[i], arg[j]))
                  => [ret[i] EXCEPT !.engineForceVector = ret[j].engineForceVector]
                       = ret[j]
         /\ (calls[c].isEngineOn /\ ValidBody(arg[i])
               /\ arg[i].engineForceVector = Vec(Zero, Zero))
              => ret[i] = recalculateBody(arg[i], calls[c].deltaTime, FALSE)

\* C5 witness: an engine-off call on two bodies with different engine
\* forces, then an engine-on call on a body without engine force.
C5_Witness ==
  /\ Len(calls) = 2
  /\ ~calls[1].isEngineOn
  /\ \E i, j \in 1..Len(calls[1].arg) :
       /\ ValidBody(calls[1].arg[i])
       /\ DiffersOnlyInEngineForce(calls[1].arg[i], calls[1].arg[j])
  /\ calls[2].isEngineOn
  /\ \E i \in 1..Len(calls[2].arg) :
       /\ ValidBody(calls[2].arg[i])
       /\ calls[2].arg[i].engineForceVector = Vec(Zero, Zero)
       /\ ~SameMotion(calls[2].arg[i], calls[2].ret[i])

\* Bodies i and j started out valid and differing only in mass, and every
\* call up to the n-th ran with the engine off.
MassPair(i, j, n) ==
  /\ EngineOffUpTo(n)
  /\ ValidBody(calls[1].arg[i])
  /\ ValidBody(calls[1].arg[j])
  /\ DiffersOnlyInMass(calls[1].arg[i], calls[1].arg[j])

PowerOfTwoRatio(m1, m2) == m1.m = m2.m

NetForce(body, engine) ==
  LET g == gravityOn(body)
  IN IF engine THEN Vec(Add(body.engineForceVector.x, g.x),
                        Add(body.engineForceVector.y, g.y))
     ELSE Vec(Add(Zero, g.x), Add(Zero, g.y))

\* v + (d1 + d0) * dt / 2
Trapezoid(v, d1, d0, dt) == Add(v, Div(Mul(Add(d1, d0), dt), FromInt(2)))

\* C7: every returned body stores a' = net force / mass,
\* v' = v + (a' + a) * dt / 2 and p' = p + (v' + v) * dt / 2, per axis.
C7_TrapezoidalUpdate ==
  \A c \in CallIndices :
    \A i \in 1..Len(calls[c].arg) :
      LET b == calls[c].arg[i]
          r == calls[c].ret[i]
          dt == calls[c].deltaTime
          f == NetForce(b, calls[c].isEngineOn)
          a1 == Vec(Div(f.x, b.mass), Div(f.y, b.mass))
          v1 == Vec(Trapezoid(b.velocityVector.x, a1.x, b.accelerationVector.x, dt),
                    Trapezoid(b.velocityVector.y, a1.y, b.accelerationVector.y, dt))
          p1 == Vec(Trapezoid(b.x, v1.x, b.velocityVector.x, dt),
                    Trapezoid(b.y, v1.y, b.velocityVector.y, dt))
      IN /\ r.accelerationVector = a1
         /\ r.velocityVector = v1
         /\ position(r) = p1

\* C7 witness: a step on a valid body with a stored acceleration and a
\* velocity, which changed its acceleration, velocity and position.
C7_Witness ==
  \E c \in CallIndices :
    \E i \in 1..Len(calls[c].arg) :
      LET b == calls[c].arg[i]
          r == calls[c].ret[i]
      IN /\ ValidBody(b)
         /\ b.accelerationVector.y # Zero
         /\ b.velocityVector.y # Zero
         /\ r.accelerationVector # b.accelerationVector
         /\ r.velocityVector # b.velocityVector
         /\ position(r) # position(b)

\* The first two calls are a step by dt and a step by -dt, same engine flag.
RoundTrip ==
  /\ Len(calls) >= 2
  /\ calls[2].deltaTime = Neg(calls[1].deltaTime)
  /\ calls[2].isEngineOn = calls[1].isEngineOn

=============================================================================
